---- MODULE Spec2Model ----
(***************************************************************************)
(* DAOWallet (chia/wallet/dao_wallet/dao_wallet.py): the treasury resync   *)
(* walk, the lineage table kept in DAOInfo.parent_info, and the launcher + *)
(* eve spend construction for treasuries and proposals.                    *)
(*                                                                         *)
(* Values.  A coin id is a tuple: <<"o1">> for a coin of the standard      *)
(* wallet, <<parent id, puzzle hash, amount>> for a derived coin, so that  *)
(* Coin.name() is injective as sha256 is taken to be.  A puzzle is a       *)
(* record with a field mod; its tree hash is the record [h |-> puzzle].    *)
(* None is the record [none |-> TRUE].                                     *)
(***************************************************************************)
EXTENDS Integers, Sequences, FiniteSets, TLC

VARIABLES
    ledger,         \* the chain as the full node reports it: set of spends
    height,         \* height of the next block
    wallets,        \* wallet_state_manager.wallets: id -> in-memory wallet
    user_store,     \* wallet_state_manager.user_store: id -> stored record
    obj,            \* "none" | "live": the DAOWallet object
    dao_info,       \* self.dao_info
    wallet_info,    \* self.wallet_info
    pc,             \* the await the running coroutine is suspended at
    frame,          \* locals of the running coroutine
    result,         \* outcome of the last finished operation
    ops,            \* number of operations started
    hist            \* observations about the running / the last operations

vars == <<ledger, height, wallets, user_store, obj, dao_info,
          wallet_info, pc, frame, result, ops, hist>>

-----------------------------------------------------------------------------
(* Bounds *)

MaxSpends == 3      \* coins spent on the ledger
MaxOps == 2         \* operations started on the wallet
MaxIssuance == 1    \* values of current_cat_issuance: 0..MaxIssuance

-----------------------------------------------------------------------------
(* Values *)

None == [none |-> TRUE]

ZeroId == <<"zero">>                \* bytes32([0] * 32)

Origins == {<<"o1">>}               \* ids of the standard wallet's coins
CatOrigins == {<<"c1">>}            \* ids of the coins the CATs are minted from
\* ids of the coins select_coins may give for a minting
SpendableCatOrigins == CatOrigins \cup {<<"c2">>}

Coin(parent_coin_info, puzzle_hash, amount) ==
    [parent_coin_info |-> parent_coin_info, puzzle_hash |-> puzzle_hash,
     amount |-> amount]

\* Coin.name(): the hash of the three fields
CoinName(coin) == <<coin.parent_coin_info, coin.puzzle_hash, coin.amount>>

\* Program.get_tree_hash()
TreeHash(program) == [h |-> program]

SINGLETON_LAUNCHER == [mod |-> "launcher"]

LineageProof(parent_name, inner_puzzle_hash, amount) ==
    [parent_name |-> parent_name, inner_puzzle_hash |-> inner_puzzle_hash,
     amount |-> amount]

DAOInfo(treasury_id, cat_wallet_id, proposals_list, parent_info, current_treasury_coin, current_treasury_innerpuz) ==
    [treasury_id |-> treasury_id, cat_wallet_id |-> cat_wallet_id,
     proposals_list |-> proposals_list, parent_info |-> parent_info,
     current_treasury_coin |-> current_treasury_coin,
     current_treasury_innerpuz |-> current_treasury_innerpuz]

\* json.dumps(dao_info.to_json_dict()) and its inverse
ToJson(info) == [json |-> info]
FromJson(data) == data.json

WalletInfo(id, name, type, data) ==
    [id |-> id, name |-> name, type |-> type, data |-> data]

-----------------------------------------------------------------------------
(* PuzzleLibrary (chia/wallet/dao_wallet/dao_utils.py, chia/wallet/singleton.py) *)

generate_cat_tail(genesis_id, treasury_id) ==
    [mod |-> "cat_tail", genesis_id |-> genesis_id, treasury_id |-> treasury_id]

get_treasury_puzzle(treasury_id, cat_tail_hash, current_cat_issuance, attendance_required_percentage, proposal_pass_percentage, proposal_timelock) ==
    [mod |-> "treasury", treasury_id |-> treasury_id,
     cat_tail_hash |-> cat_tail_hash,
     current_cat_issuance |-> current_cat_issuance,
     attendance_required_percentage |-> attendance_required_percentage,
     proposal_pass_percentage |-> proposal_pass_percentage,
     proposal_timelock |-> proposal_timelock]

get_proposal_puzzle(proposal_id, cat_tail_hash, treasury_id, proposed_puzzle_hash) ==
    [mod |-> "proposal", proposal_id |-> proposal_id,
     cat_tail_hash |-> cat_tail_hash, treasury_id |-> treasury_id,
     proposed_puzzle_hash |-> proposed_puzzle_hash]

curry_singleton(singleton_id, innerpuz) ==
    [mod |-> "singleton", singleton_id |-> singleton_id, innerpuz |-> innerpuz]

\* chia.wallet.singleton.get_innerpuzzle_from_puzzle
get_innerpuzzle_from_puzzle(puzzle) == puzzle.innerpuz

get_cat_tail_hash_from_treasury_puzzle(treasury_puzzle) ==
    treasury_puzzle.cat_tail_hash

\* An inner solution of a treasury spend that changes the puzzle names the
\* new issuance; one that cannot be decoded has decodable = FALSE.
InnerSolution(decodable, new_issuance) ==
    [decodable |-> decodable, new_issuance |-> new_issuance]

\* bytes(n): n bytes of value zero
ZeroBytes(n) == [zeros |-> n]

\* Program.to([puzzle_hash, amount, bytes(0x80)]), the solution of a launcher
LauncherSolution(puzzle_hash, amount) ==
    [puzzle_hash |-> puzzle_hash, amount |-> amount, extra |-> ZeroBytes(128)]

\* The full solution of a singleton is (lineage_proof my_amount inner_solution)
FullSolution(lineage_proof, my_amount, inner_solution) ==
    [lineage_proof |-> lineage_proof, my_amount |-> my_amount,
     inner_solution |-> inner_solution]

\* A solution that ends before its third element
ShortSolution(lineage_proof) == [lineage_proof |-> lineage_proof]

\* solution.to_program().rest().rest().first() evaluates
HasThird(solution) == "inner_solution" \in DOMAIN solution

CanDecode(inner_solution) == inner_solution.decodable

get_new_puzzle_from_treasury_solution(puzzle_reveal, inner_solution) ==
    [puzzle_reveal EXCEPT !.current_cat_issuance = inner_solution.new_issuance]


-----------------------------------------------------------------------------
(* The ledger, as the full node peer reports it *)

StandardPuzzleHash == TreeHash([mod |-> "p2_delegated_puzzle_or_hidden_puzzle"])

LauncherCoin(origin_id) == Coin(origin_id, TreeHash(SINGLETON_LAUNCHER), 1)

LauncherIds == {CoinName(LauncherCoin(o)) : o \in Origins}

\* The issuance tails a treasury on the ledger may carry
LedgerTails(launcher_id) ==
    {generate_cat_tail(c, launcher_id) : c \in CatOrigins}

\* The issuance tails of the token wallets of other treasuries
ForeignTails == {generate_cat_tail(<<"x1">>, <<"x2">>)}

Spend(coin_id, at_height, children, puzzle_reveal, solution) ==
    [coin_id |-> coin_id, height |-> at_height, children |-> children,
     puzzle_reveal |-> puzzle_reveal, solution |-> solution]

CoinState(coin, created_height) ==
    [coin |-> coin, created_height |-> created_height]

SpentIds(l) == {s.coin_id : s \in l}

SpendOf(l, coin_id) == CHOOSE s \in l : s.coin_id = coin_id

\* wallet_node.fetch_children(coin_id, peer)
FetchChildren(l, coin_id) ==
    IF coin_id \in SpentIds(l)
    THEN LET s == SpendOf(l, coin_id)
         IN  [i \in 1..Len(s.children) |-> CoinState(s.children[i], s.height)]
    ELSE <<>>

\* wallet_node.fetch_puzzle_solution(height, coin, peer)
FetchPuzzleSolution(l, at_height, coin) ==
    IF CoinName(coin) \in SpentIds(l) /\ SpendOf(l, CoinName(coin)).height = at_height
    THEN SpendOf(l, CoinName(coin))
    ELSE None

\* The children of odd amount the ledger l holds for a coin id
OddChildrenOf(l, coin_id) ==
    {c \in UNION {{s.children[i] : i \in 1..Len(s.children)} :
                    s \in {t \in l : t.coin_id = coin_id}} : c.amount % 2 = 1}

\* The spends whose solution the wallet's library reads in full
WellFormed(l) ==
    {s \in l : \/ s.puzzle_reveal = SINGLETON_LAUNCHER
               \/ HasThird(s.solution) /\ CanDecode(s.solution.inner_solution)}

\* Unspent coins of odd amount created by the well-formed spends of l.  The
\* walk reads the solution of the last spend only, so a chain that goes on
\* after a spend of another form is to the wallet the chain that goes on
\* after a well-formed one; the ledger holds such a spend as its last.
UnspentSingletons(l) ==
    {c \in UNION {{s.children[i] : i \in 1..Len(s.children)} : s \in WellFormed(l)} :
        c.amount % 2 = 1 /\ CoinName(c) \notin SpentIds(l)}

\* The launcher creates the eve coin: the treasury puzzle wrapped in the
\* singleton layer, amount 1.
LauncherSpends(launcher_id, at_height) ==
    {LET inner == get_treasury_puzzle(launcher_id, TreeHash(tail), 1, 10, 10, 10)
         full_hash == TreeHash(curry_singleton(launcher_id, inner))
     IN  Spend(launcher_id, at_height, <<Coin(launcher_id, full_hash, 1)>>,
               SINGLETON_LAUNCHER, LauncherSolution(full_hash, 1))
     : tail \in LedgerTails(launcher_id)}

\* The spends of a singleton coin the consensus admits: the puzzle reveal
\* hashes to the coin's puzzle hash, and there is at most one child of odd
\* amount.
SingletonSpends(coin, at_height) ==
    LET id == CoinName(coin)
        reveal == coin.puzzle_hash.h
        inner == get_innerpuzzle_from_puzzle(reveal)
        lineage == <<coin.parent_coin_info, coin.amount>>
        change == Coin(id, StandardPuzzleHash, 2)
        Rehash(n) == TreeHash(curry_singleton(reveal.singleton_id,
                        [inner EXCEPT !.current_cat_issuance = n]))
        Others == {(inner.current_cat_issuance + 1) % (MaxIssuance + 1)}
    IN  \* the puzzle is recreated unchanged, beside a change coin
        {Spend(id, at_height, <<change, Coin(id, coin.puzzle_hash, 3)>>, reveal,
               FullSolution(lineage, coin.amount, InnerSolution(TRUE, inner.current_cat_issuance)))}
        \cup  \* the puzzle is recreated with the next issuance
        {Spend(id, at_height, <<Coin(id, Rehash(n), 1)>>, reveal,
               FullSolution(lineage, coin.amount, InnerSolution(TRUE, n))) : n \in Others}
        \cup  \* a new puzzle the wallet's library cannot decode
        {Spend(id, at_height, <<Coin(id, Rehash(n), 1)>>, reveal,
               FullSolution(lineage, coin.amount, InnerSolution(FALSE, n))) : n \in Others}
        \cup  \* a solution without an inner solution
        {Spend(id, at_height, <<Coin(id, Rehash(n), 1)>>, reveal,
               ShortSolution(lineage)) : n \in Others}
        \cup  \* the singleton is melted: no child of odd amount
        {Spend(id, at_height, <<change>>, reveal,
               FullSolution(lineage, coin.amount, InnerSolution(TRUE, inner.current_cat_issuance)))}

\* A block is added that spends a launcher or the tip of a singleton chain.
\* The wallet reads the ledger only in resync, one coin after the other
\* towards the tip, and a block spends the tip, which the walk has not read
\* yet: a block added at any time before the walk's last fetch_children
\* gives the walk what it gives when added before the first one.  Blocks
\* are taken to arrive there.
LedgerAdvance ==
    /\ Cardinality(ledger) < MaxSpends
    /\ pc = "r_fetch_first"
    /\ \/ \E id \in LauncherIds \ SpentIds(ledger) :
            \E s \in LauncherSpends(id, height) : ledger' = ledger \cup {s}
       \/ \E c \in UnspentSingletons(ledger) :
            \E s \in SingletonSpends(c, height) : ledger' = ledger \cup {s}
    /\ height' = height + 1
    /\ UNCHANGED <<wallets, user_store, obj, dao_info, wallet_info,
                   pc, frame, result, ops, hist>>

-----------------------------------------------------------------------------
(* The host: wallet registry and persistent store *)

StoredWallet(name, type, data) == [name |-> name, type |-> type, data |-> data]

\* user_store.create_wallet(name, type, data): the new record gets the next id
CreateWallet(store, name, type, data) == Append(store, StoredWallet(name, type, data))

\* user_store.update_wallet(wallet_info)
UpdateWallet(store, info) ==
    [store EXCEPT ![info.id] = StoredWallet(info.name, info.type, info.data)]

\* wallet_state_manager.add_new_wallet(wallet, id) and the registration a
\* token wallet does on its creation
AddNewWallet(ws, id, type, tail_hash) ==
    [i \in DOMAIN ws \cup {id} |->
        IF i = id THEN [type |-> type, tail_hash |-> tail_hash] ELSE ws[i]]

\* The DAOInfo the store holds for this wallet
StoredInfo == user_store[wallet_info.id].data

\* Token wallets the host may hold before the DAO wallet is made: a CAT
\* wallet made for a tail hash, a DAO CAT wallet made for a tail hash, or a
\* DAO CAT wallet that minted under its tail and keeps the tail (my_tail)
PreWallets ==
    LET Tails == ForeignTails \cup UNION {LedgerTails(id) : id \in LauncherIds}
    IN  {<<>>}
        \cup {<<[type |-> t, tail_hash |-> TreeHash(tail), my_tail |-> None]>> :
                t \in {"CAT", "DAO_CAT"}, tail \in Tails}
        \cup {<<[type |-> "DAO_CAT", tail_hash |-> TreeHash(tail), my_tail |-> tail]>> :
                tail \in Tails}

NoFrame == [op |-> "none"]

\* What the properties need to remember: DAOInfo and stored DAOInfo at the
\* last call and the registry then, the peer queries since then and whether
\* the call found no peer, the ledger at the last fetch_children, and the
\* outcomes of the last two resyncs that returned; the store at the last
\* call, the arguments of the last generate_new_dao, the select_coins calls
\* since the last call, the bundle the last call returned, and the tail hash
\* of the treasury last created or resynced; the lineage entries a second
\* coroutine appended since the last call.
NoHist ==
    [pre_info |-> None, pre_store |-> None, queries |-> 0, no_peer |-> FALSE,
     pre_wallets |-> <<>>, seen_ledger |-> {}, last_sync |-> None,
     prev_sync |-> None, pre_records |-> <<>>, args |-> None, selects |-> 0,
     returned |-> None, treasury_tail |-> None, overlap |-> <<>>]

CallHist(h, info, stored, no_peer) ==
    [h EXCEPT !.pre_info = info, !.pre_store = stored, !.queries = 0,
              !.no_peer = no_peer, !.pre_wallets = wallets, !.seen_ledger = {},
              !.pre_records = user_store, !.args = None, !.selects = 0,
              !.returned = None, !.overlap = <<>>]

Init ==
    /\ ledger = {}
    /\ height = 1
    /\ \E pre \in PreWallets :
        /\ wallets = [i \in 1..(1 + Len(pre)) |->
                        IF i = 1 THEN [type |-> "STANDARD", tail_hash |-> None]
                        ELSE [type |-> pre[i - 1].type,
                              tail_hash |-> pre[i - 1].tail_hash]]
        /\ user_store = [i \in 1..(1 + Len(pre)) |->
                        IF i = 1 THEN StoredWallet("Chia Wallet", "STANDARD", None)
                        ELSE StoredWallet("CAT", pre[i - 1].type,
                                          [tail_hash |-> pre[i - 1].tail_hash,
                                           my_tail |-> pre[i - 1].my_tail])]
    /\ obj = "none"
    /\ dao_info = None
    /\ wallet_info = None
    /\ pc = "idle"
    /\ frame = NoFrame
    /\ result = None
    /\ ops = 0
    /\ hist = NoHist

-----------------------------------------------------------------------------
(* DAOWallet.save_info and DAOWallet.add_parent *)

\* mutant: the record handed to the store keeps the data it had
SaveInfoWalletInfoStale(current_info, info) ==
    WalletInfo(current_info.id, current_info.name, current_info.type, current_info.data)

\* save_info up to its await: self.dao_info and self.wallet_info are set
SaveInfoWalletInfo(current_info, info) ==
    WalletInfo(current_info.id, current_info.name, current_info.type, ToJson(info))

\* mutant: add_parent builds its DAOInfo without the current coin
AddParentInfoNoCoin(info, name, parent) ==
    DAOInfo(info.treasury_id, info.cat_wallet_id, info.proposals_list,
            Append(info.parent_info, <<name, parent>>),
            None, info.current_treasury_innerpuz)

\* add_parent up to the await of save_info: the DAOInfo it builds
AddParentInfo(info, name, parent) ==
    DAOInfo(info.treasury_id, info.cat_wallet_id, info.proposals_list,
            Append(info.parent_info, <<name, parent>>),
            info.current_treasury_coin, info.current_treasury_innerpuz)

\* An operation ends: with a value, or with an exception that reaches the
\* caller.  An exception inside a constructor leaves no object behind.
Finish(op, status, cause) ==
    /\ result' = [op |-> op, status |-> status, cause |-> cause]
    /\ pc' = "idle"
    /\ frame' = NoFrame

-----------------------------------------------------------------------------
(* DAOWallet.resync_treasury_state *)

\* mutant: the check for a missing peer is left out
NoPeerNever(peer) == FALSE

\* peer is None
NoPeer(peer) == ~peer

\* mutant: the children are not filtered by the parity of the amount
OddChildrenAll(children) == children

\* [child for child in children if child.coin.amount % 2 == 1]
OddChildren(children) ==
    SelectSeq(children, LAMBDA child : child.coin.amount % 2 = 1)

\* mutant: the frontier is left where it is
NextFrontierStays(child_coin) == frame.parent_coin_id

\* parent_coin_id = child_coin.name() (line 392)
NextFrontier(child_coin) == CoinName(child_coin)

\* mutant: the prior frontier, once set, is kept
AdvanceKeepsFirst(parent_parent_coin, parent_coin, child_coin) ==
    [parent_parent_coin |-> IF parent_parent_coin # None THEN parent_parent_coin
                            ELSE parent_coin,
     parent_coin |-> child_coin]

\* the carry-over of the loop body: (parent_parent_coin, parent_coin)
Advance(parent_parent_coin, parent_coin, child_coin) ==
    [parent_parent_coin |-> IF parent_coin # None THEN parent_coin
                            ELSE parent_parent_coin,
     parent_coin |-> child_coin]

\* mutant: the spend counts as an eve spend while the wallet has no tip
IsEveSpendFirstSync(parent_spend, child_coin) ==
    dao_info.current_treasury_coin = None

\* the spend of the prior frontier recreated its own puzzle
IsEveSpend(parent_spend, child_coin) ==
    TreeHash(parent_spend.puzzle_reveal) = child_coin.puzzle_hash

\* the steady-state branch cannot produce a puzzle
DecodeFails(parent_spend) ==
    \/ ~HasThird(parent_spend.solution)
    \/ ~CanDecode(parent_spend.solution.inner_solution)

\* mutant: the inner puzzle of the reveal is taken for every spend
CurrentInnerPuzOfReveal(parent_spend, child_coin) ==
    get_innerpuzzle_from_puzzle(parent_spend.puzzle_reveal)

\* current_inner_puz (lines 398-415)
CurrentInnerPuz(parent_spend, child_coin) ==
    LET parent_inner_puz == get_innerpuzzle_from_puzzle(parent_spend.puzzle_reveal)
    IN  IF IsEveSpend(parent_spend, child_coin)
        THEN parent_inner_puz
        ELSE get_new_puzzle_from_treasury_solution(
                parent_inner_puz, parent_spend.solution.inner_solution)

\* mutant: the full puzzle hash of the coin stands for the inner puzzle hash
CurrentLineageProofFullHash(parent_parent_coin, parent_inner_puz) ==
    LineageProof(parent_parent_coin.parent_coin_info,
                 parent_parent_coin.puzzle_hash, parent_parent_coin.amount)

\* current_lineage_proof
CurrentLineageProof(parent_parent_coin, parent_inner_puz) ==
    LineageProof(parent_parent_coin.parent_coin_info, TreeHash(parent_inner_puz),
                 parent_parent_coin.amount)

\* future_parent
FutureParent(child_coin, current_inner_puz) ==
    LineageProof(child_coin.parent_coin_info, TreeHash(current_inner_puz),
                 child_coin.amount)

\* The wallet the loop over wallet_state_manager.wallets stops at, 0 when it
\* runs to its else branch.
WalletStops(ws, cat_tail_hash) ==
    {id \in DOMAIN ws :
        \/ ws[id].type = "CAT" /\ ws[id].tail_hash = cat_tail_hash
        \/ ws[id].type = "DAO_CAT"}

FindCatWallet(ws, cat_tail_hash) ==
    IF WalletStops(ws, cat_tail_hash) = {} THEN 0
    ELSE CHOOSE id \in WalletStops(ws, cat_tail_hash) :
            \A other \in WalletStops(ws, cat_tail_hash) : id <= other

\* mutant: the prior frontier is stored as the current coin
ResyncedInfoPrior(info, cat_wallet_id, child_coin, current_inner_puz) ==
    DAOInfo(info.treasury_id, cat_wallet_id, info.proposals_list,
            info.parent_info, frame.parent_parent_coin, current_inner_puz)

\* the DAOInfo built for the tip
ResyncedInfo(info, cat_wallet_id, child_coin, current_inner_puz) ==
    DAOInfo(info.treasury_id, cat_wallet_id, info.proposals_list,
            info.parent_info, child_coin, current_inner_puz)

ResyncFrame(caller, treasury_id) ==
    [op |-> "resync", caller |-> caller, parent_coin_id |-> treasury_id,
     children |-> <<>>, parent_coin |-> None, parent_parent_coin |-> None,
     children_state |-> None, child_coin |-> None,
     parent_inner_puz |-> None, current_inner_puz |-> None,
     cat_tail_hash |-> None, cat_wallet |-> 0, dao_info |-> None]

\* mutant: the failure is swallowed and resync_treasury_state returns
ResyncRaiseReturns(caller, cause) ==
    IF caller = "import"
    THEN Finish("import", "ok", cause) /\ obj' = "live"
    ELSE Finish("resync", "ok", cause) /\ obj' = obj

\* An exception leaves resync_treasury_state
ResyncRaise(caller, cause) ==
    IF caller = "import"
    THEN Finish("import", "error", cause) /\ obj' = "none"
    ELSE Finish("resync", "error", cause) /\ obj' = obj

\* the call, up to the first fetch_children
\* peer = wallet_node.get_full_node_peer() is a connection (TRUE) or None
ResyncEnter(caller, stored) ==
    \E peer \in BOOLEAN :
        /\ hist' = CallHist(hist, dao_info, stored, ~peer)
        /\ IF NoPeer(peer)
           THEN ResyncRaise(caller, "no_peer")
           ELSE /\ pc' = "r_fetch_first"
                /\ frame' = ResyncFrame(caller, dao_info.treasury_id)
                /\ UNCHANGED <<obj, result>>

ResyncCall ==
    /\ obj = "live" /\ pc = "idle" /\ ops < MaxOps
    /\ ops' = ops + 1
    /\ ResyncEnter("api", StoredInfo)
    /\ UNCHANGED <<ledger, height, wallets, user_store, dao_info,
                   wallet_info>>

\* children = await wallet_node.fetch_children(parent_coin_id, peer)
ResyncFetchFirst ==
    /\ pc = "r_fetch_first"
    /\ LET children == FetchChildren(ledger, frame.parent_coin_id)
       IN  /\ hist' = [hist EXCEPT !.queries = @ + 1, !.seen_ledger = ledger]
           /\ IF Len(children) = 0
              THEN ResyncRaise(frame.caller, "no_children")
              ELSE /\ pc' = "r_loop"
                   /\ frame' = [frame EXCEPT !.children = children]
                   /\ UNCHANGED <<obj, result>>
    /\ UNCHANGED <<ledger, height, wallets, user_store, dao_info,
                   wallet_info, ops>>

\* one pass of the while loop, from its fetch_children to the next await
ResyncLoop ==
    /\ pc = "r_loop"
    /\ LET children == FetchChildren(ledger, frame.parent_coin_id)
           odd == OddChildren(children)
           carry == Advance(frame.parent_parent_coin, frame.parent_coin, odd[1].coin)
       IN  IF Len(children) = 0
           THEN \* break; assert children_state.created_height
                /\ hist' = [hist EXCEPT !.queries = @ + 1, !.seen_ledger = ledger]
                /\ IF frame.children_state = None
                   THEN ResyncRaise(frame.caller, "unbound")
                   ELSE /\ pc' = "r_puzzle_solution"
                        /\ frame' = [frame EXCEPT !.children = children]
                        /\ UNCHANGED <<obj, result>>
           ELSE /\ hist' = [hist EXCEPT !.queries = @ + 1, !.seen_ledger = ledger]
                /\ IF Len(odd) = 0
                   THEN ResyncRaise(frame.caller, "no_odd_child")
                   ELSE /\ pc' = "r_loop"
                        /\ frame' = [frame EXCEPT
                              !.children = children,
                              !.children_state = odd[1],
                              !.child_coin = odd[1].coin,
                              !.parent_parent_coin = carry.parent_parent_coin,
                              !.parent_coin = carry.parent_coin,
                              !.parent_coin_id = NextFrontier(odd[1].coin)]
                        /\ UNCHANGED <<obj, result>>
    /\ UNCHANGED <<ledger, height, wallets, user_store, dao_info,
                   wallet_info, ops>>

\* parent_spend = await wallet_node.fetch_puzzle_solution(...), the choice
\* of the current inner puzzle, and add_parent for the prior frontier up to
\* the await of its save_info
ResyncPuzzleSolution ==
    /\ pc = "r_puzzle_solution"
    /\ IF frame.parent_parent_coin = None
       THEN \* fetch_puzzle_solution evaluates coin.name() of None
            /\ ResyncRaise(frame.caller, "no_prior_frontier")
            /\ UNCHANGED <<dao_info, wallet_info, hist>>
       ELSE LET parent_spend == FetchPuzzleSolution(ledger,
                    frame.children_state.created_height, frame.parent_parent_coin)
                parent_inner_puz == get_innerpuzzle_from_puzzle(parent_spend.puzzle_reveal)
                current_inner_puz == CurrentInnerPuz(parent_spend, frame.child_coin)
                info == AddParentInfo(dao_info, CoinName(frame.parent_parent_coin),
                            CurrentLineageProof(frame.parent_parent_coin, parent_inner_puz))
            IN  /\ hist' = [hist EXCEPT !.queries = @ + 1]
                /\ IF parent_spend = None
                   THEN /\ ResyncRaise(frame.caller, "no_parent_spend")
                        /\ UNCHANGED <<dao_info, wallet_info>>
                   ELSE IF ~IsEveSpend(parent_spend, frame.child_coin)
                           /\ DecodeFails(parent_spend)
                   THEN /\ ResyncRaise(frame.caller,
                              IF HasThird(parent_spend.solution)
                              THEN "undecodable" ELSE "malformed_solution")
                        /\ UNCHANGED <<dao_info, wallet_info>>
                   ELSE /\ dao_info' = info
                        /\ wallet_info' = SaveInfoWalletInfo(wallet_info, info)
                        /\ pc' = "r_save_prior"
                        /\ frame' = [frame EXCEPT
                              !.parent_inner_puz = parent_inner_puz,
                              !.current_inner_puz = current_inner_puz]
                        /\ UNCHANGED <<obj, result>>
    /\ UNCHANGED <<ledger, height, wallets, user_store, ops>>

\* lines 452-468: the DAOInfo for the tip is built, then add_parent for the
\* tip runs up to the await of its save_info
ResyncTip(cat_wallet_id) ==
    LET info == AddParentInfo(dao_info, CoinName(frame.child_coin),
                    FutureParent(frame.child_coin, frame.current_inner_puz))
    IN  /\ frame' = [frame EXCEPT
              !.cat_wallet = cat_wallet_id,
              !.dao_info = ResyncedInfo(dao_info, cat_wallet_id,
                               frame.child_coin, frame.current_inner_puz)]
        /\ dao_info' = info
        /\ wallet_info' = SaveInfoWalletInfo(wallet_info, info)
        /\ pc' = "r_save_tip"

\* the store takes the lineage of the prior frontier; then the loop over the
\* registered wallets runs
ResyncSavePrior ==
    /\ pc = "r_save_prior"
    /\ user_store' = UpdateWallet(user_store, wallet_info)
    /\ LET cat_tail_hash == get_cat_tail_hash_from_treasury_puzzle(frame.parent_inner_puz)
           found == FindCatWallet(wallets, cat_tail_hash)
       IN  IF found = 0
           THEN /\ pc' = "r_create_cat"
                /\ frame' = [frame EXCEPT !.cat_tail_hash = cat_tail_hash]
                /\ UNCHANGED <<dao_info, wallet_info>>
           ELSE IF wallets[found].type = "CAT"
           THEN /\ pc' = "r_convert"
                /\ frame' = [frame EXCEPT !.cat_tail_hash = cat_tail_hash,
                                          !.cat_wallet = found]
                /\ UNCHANGED <<dao_info, wallet_info>>
           ELSE ResyncTip(found)
    /\ UNCHANGED <<ledger, height, wallets, obj, result, ops, hist>>

\* the matching CAT wallet becomes a DAO CAT wallet
ResyncConvert ==
    /\ pc = "r_convert"
    /\ user_store' = [user_store EXCEPT ![frame.cat_wallet].type = "DAO_CAT"]
    /\ wallets' = [wallets EXCEPT ![frame.cat_wallet].type = "DAO_CAT"]
    /\ ResyncTip(frame.cat_wallet)
    /\ UNCHANGED <<ledger, height, obj, result, ops, hist>>

\* DAOCATWallet.create_wallet_for_cat: a new token wallet for the tail, or
\* an exception
ResyncCreateCat ==
    /\ pc = "r_create_cat"
    /\ \/ /\ ResyncRaise(frame.caller, "cat_wallet")
          /\ UNCHANGED <<wallets, user_store, dao_info, wallet_info>>
       \/ LET id == Len(user_store) + 1
          IN  /\ user_store' = CreateWallet(user_store, "DAO CAT", "DAO_CAT",
                                    [tail_hash |-> frame.cat_tail_hash, my_tail |-> None])
              /\ wallets' = AddNewWallet(wallets, id, "DAO_CAT", frame.cat_tail_hash)
              /\ ResyncTip(id)
              /\ UNCHANGED <<obj, result>>
    /\ UNCHANGED <<ledger, height, ops, hist>>

\* the store takes the lineage of the tip; then save_info(dao_info) runs up
\* to its await
ResyncSaveTip ==
    /\ pc = "r_save_tip"
    /\ user_store' = UpdateWallet(user_store, wallet_info)
    /\ dao_info' = frame.dao_info
    /\ wallet_info' = SaveInfoWalletInfo(wallet_info, frame.dao_info)
    /\ pc' = "r_save_info"
    /\ UNCHANGED <<ledger, height, wallets, obj, frame, result, ops, hist>>

Synced(info, tip_ledger) ==
    [treasury_id |-> info.treasury_id, tip_ledger |-> tip_ledger,
     coin |-> info.current_treasury_coin,
     innerpuz |-> info.current_treasury_innerpuz]

\* the store takes the DAOInfo of the tip; resync_treasury_state returns
ResyncSaveInfo ==
    /\ pc = "r_save_info"
    /\ user_store' = UpdateWallet(user_store, wallet_info)
    /\ hist' = [hist EXCEPT
            !.prev_sync = hist.last_sync,
            !.last_sync = Synced(dao_info, hist.seen_ledger),
            !.treasury_tail = get_cat_tail_hash_from_treasury_puzzle(frame.parent_inner_puz)]
    /\ IF frame.caller = "import"
       THEN /\ pc' = "i_add_wallet"
            /\ UNCHANGED <<frame, result>>
       ELSE Finish("resync", "ok", "")
    /\ UNCHANGED <<ledger, height, wallets, obj, dao_info,
                   wallet_info, ops>>

-----------------------------------------------------------------------------
(* DAOWallet.create_new_dao_wallet_for_existing_dao *)

\* lines 161-181, up to the await of create_wallet
ImportCall ==
    /\ obj = "none" /\ pc = "idle" /\ ops = 0
    /\ ops' = ops + 1
    /\ \E treasury_id \in LauncherIds :
        dao_info' = DAOInfo(treasury_id, 0, <<>>, <<>>, None, None)
    /\ obj' = "new"
    /\ wallet_info' = None
    /\ pc' = "i_create_wallet"
    /\ frame' = [op |-> "import"]
    /\ hist' = CallHist(hist, None, None, FALSE)
    /\ UNCHANGED <<ledger, height, wallets, user_store, result>>

\* the store creates the record; resync_treasury_state is entered
ImportCreateWallet ==
    /\ pc = "i_create_wallet"
    /\ user_store' = CreateWallet(user_store, "Profile 1", "DAO", ToJson(dao_info))
    /\ wallet_info' = WalletInfo(Len(user_store) + 1, "Profile 1", "DAO", ToJson(dao_info))
    /\ ResyncEnter("import", ToJson(dao_info))
    /\ UNCHANGED <<ledger, height, wallets, dao_info, ops>>

\* add_new_wallet, then save_info(self.dao_info) up to its await
ImportAddWallet ==
    /\ pc = "i_add_wallet"
    /\ wallets' = AddNewWallet(wallets, wallet_info.id, "DAO", None)
    /\ wallet_info' = SaveInfoWalletInfo(wallet_info, dao_info)
    /\ pc' = "i_save_info"
    /\ UNCHANGED <<ledger, height, user_store, obj, dao_info, frame,
                   result, ops, hist>>

\* the store takes the DAOInfo; the constructor returns the wallet
ImportSaveInfo ==
    /\ pc = "i_save_info"
    /\ user_store' = UpdateWallet(user_store, wallet_info)
    /\ obj' = "live"
    /\ Finish("import", "ok", "")
    /\ UNCHANGED <<ledger, height, wallets, dao_info, wallet_info,
                   ops, hist>>

-----------------------------------------------------------------------------
(* DAOWallet.generate_new_dao *)

\* mutant: the upper limit is off by one
PassPercentageRejectedAbove(proposal_pass_percentage) ==
    proposal_pass_percentage > 10001 \/ proposal_pass_percentage < 0

\* proposal_pass_percentage > 10000 or proposal_pass_percentage < 0
PassPercentageRejected(proposal_pass_percentage) ==
    proposal_pass_percentage > 10000 \/ proposal_pass_percentage < 0

\* the arguments the model calls generate_new_dao with
NewDaoArgs ==
    {[amount_of_cats |-> 1, attendance_required_percentage |-> p[1],
      proposal_pass_percentage |-> p[2], proposal_timelock |-> 10, fee |-> 0] :
        p \in {<<10, 10>>, <<10001, 10>>, <<10, 10001>>}}

\* the arguments create_new_dao_and_wallet passes on (lines 130-136)
CreateArgs(amount_of_cats, fee) ==
    [amount_of_cats |-> amount_of_cats, attendance_required_percentage |-> 10,
     proposal_pass_percentage |-> 10, proposal_timelock |-> 10, fee |-> fee]

NewDaoFrame(caller, args) ==
    [op |-> "new_dao", caller |-> caller, args |-> args, origin |-> ZeroId,
     cat_origin |-> ZeroId, launcher_coin |-> None, cat_tail |-> None,
     cat_wallet_id |-> 0, tx_record |-> None]

\* dao_treasury_puzzle (lines 636-643)
DaoTreasuryPuzzle(f) ==
    get_treasury_puzzle(CoinName(f.launcher_coin), TreeHash(f.cat_tail),
        f.args.amount_of_cats, f.args.attendance_required_percentage,
        f.args.proposal_pass_percentage, f.args.proposal_timelock)

\* eve_coin (line 660)
EveCoin(launcher_coin, inner_puzzle) ==
    Coin(CoinName(launcher_coin),
         TreeHash(curry_singleton(CoinName(launcher_coin), inner_puzzle)), 1)

\* eve_parent (lines 666-670, 787-791)
EveParent(launcher_coin) ==
    LineageProof(launcher_coin.parent_coin_info, launcher_coin.puzzle_hash,
                 launcher_coin.amount)

\* future_parent (lines 661-665, 782-786)
EveFutureParent(eve_coin, inner_puzzle) ==
    LineageProof(eve_coin.parent_coin_info, TreeHash(inner_puzzle), eve_coin.amount)

\* Announcement(origin_info, message)
Announcement(origin_info, message) ==
    [origin_info |-> origin_info, message |-> message]

\* announcement_message (lines 649, 769)
AnnouncementMessage(full_puzzle_hash) ==
    TreeHash(LauncherSolution(full_puzzle_hash, 1))

\* genesis_launcher_solution (lines 656, 776)
GenesisLauncherSolution(full_puzzle_hash) ==
    LauncherSolution(full_puzzle_hash, 1)

CoinSpend(coin, puzzle_reveal, solution) ==
    [coin |-> coin, puzzle_reveal |-> puzzle_reveal, solution |-> solution]

\* launcher_cs, the only spend of launcher_sb (lines 658-659)
LauncherCs(launcher_coin, full_puzzle_hash) ==
    CoinSpend(launcher_coin, SINGLETON_LAUNCHER, GenesisLauncherSolution(full_puzzle_hash))

\* The transaction of the standard wallet that pays amount to puzzle_hash
\* from the coin origin_id: one spend, which creates the payment and asserts
\* the announcements it was given to consume.
FundingSpendBundle(amount, puzzle_hash, origin_id, announcement_set) ==
    <<CoinSpend([name |-> origin_id],
                [mod |-> "p2_delegated_puzzle_or_hidden_puzzle"],
                [create_coin |-> Coin(origin_id, puzzle_hash, amount),
                 assert_coin_announcement |-> announcement_set])>>

\* generate_signed_transaction for the launcher of a singleton whose full
\* puzzle hash is given (lines 648-654, 768-774)
LauncherFunding(f, full_puzzle_hash) ==
    FundingSpendBundle(1, TreeHash(SINGLETON_LAUNCHER), f.origin,
        {Announcement(CoinName(f.launcher_coin), AnnouncementMessage(full_puzzle_hash))})

\* generate_treasury_eve_spend: the coin spend of the unsigned bundle
TreasuryEveSpend(coin, full_puzzle, innerpuz, origin_coin) ==
    LET inner_sol == [my_amount |-> coin.amount, relative_change |-> 0,
                      new_puzhash |-> TreeHash(innerpuz), messages |-> <<>>,
                      spend_case |-> 0]
        fullsol == FullSolution(<<origin_coin.parent_coin_info, origin_coin.amount>>,
                                coin.amount, inner_sol)
    IN  CoinSpend(coin, full_puzzle, fullsol)

\* mutant: the launcher's bundle is left out of the aggregate
FullSpendNoLauncher(tx_spend_bundle, eve_spend, launcher_sb) ==
    tx_spend_bundle \o <<eve_spend>>

\* SpendBundle.aggregate([tx_record.spend_bundle, eve_spend, launcher_sb])
FullSpend(tx_spend_bundle, eve_spend, launcher_sb) ==
    tx_spend_bundle \o <<eve_spend>> \o launcher_sb

\* generate_new_dao ends: its caller is the host or create_new_dao_and_wallet
NewDaoReturn(caller, status, cause) ==
    IF caller = "create"
    THEN IF status = "ok"
         THEN pc' = "c_add_wallet" /\ UNCHANGED <<frame, result, obj>>
         ELSE /\ pc' = "c_delete_wallet"
              /\ frame' = [op |-> "create", status |-> status, cause |-> cause]
              /\ UNCHANGED <<result, obj>>
    ELSE Finish("new_dao", status, cause) /\ obj' = obj

\* the call, up to the await of the first select_coins
NewDaoEnter(caller, args, stored) ==
    /\ hist' = [CallHist(hist, dao_info, stored, FALSE) EXCEPT
                    !.args = args,
                    !.selects = IF PassPercentageRejected(args.proposal_pass_percentage)
                                THEN 0 ELSE 1]
    /\ IF PassPercentageRejected(args.proposal_pass_percentage)
       THEN NewDaoReturn(caller, "error", "pass_percentage")
       ELSE /\ pc' = "d_select_coins"
            /\ frame' = NewDaoFrame(caller, args)
            /\ UNCHANGED <<obj, result>>

NewDaoCall ==
    /\ obj = "live" /\ pc = "idle" /\ ops < MaxOps
    /\ ops' = ops + 1
    /\ \E args \in NewDaoArgs : NewDaoEnter("api", args, StoredInfo)
    /\ UNCHANGED <<ledger, height, wallets, user_store, dao_info,
                   wallet_info>>

\* coins = await self.standard_wallet.select_coins(fee + 1)
NewDaoSelectCoins ==
    /\ pc = "d_select_coins"
    /\ \/ /\ NewDaoReturn(frame.caller, "none", "no_coins")
          /\ UNCHANGED hist
       \/ \E origin \in Origins :
            /\ pc' = "d_select_cat_coins"
            /\ frame' = [frame EXCEPT !.origin = origin]
            /\ hist' = [hist EXCEPT !.selects = @ + 1]
            /\ UNCHANGED <<obj, result>>
    /\ UNCHANGED <<ledger, height, wallets, user_store, dao_info,
                   wallet_info, ops>>

\* different_coins = await select_coins(amount_of_cats, exclude=[origin]);
\* lines 581-612 up to the await of save_info
NewDaoSelectCatCoins ==
    /\ pc = "d_select_cat_coins"
    /\ \/ /\ NewDaoReturn(frame.caller, "error", "no_cat_coins")
          /\ UNCHANGED <<dao_info, wallet_info>>
       \/ \E cat_origin \in SpendableCatOrigins :
            LET launcher_coin == LauncherCoin(frame.origin)
                info == DAOInfo(CoinName(launcher_coin), dao_info.cat_wallet_id,
                            dao_info.proposals_list, dao_info.parent_info, None, None)
            IN  /\ frame' = [frame EXCEPT
                      !.cat_origin = cat_origin,
                      !.launcher_coin = launcher_coin,
                      !.cat_tail = generate_cat_tail(cat_origin, CoinName(launcher_coin))]
                /\ dao_info' = info
                /\ wallet_info' = SaveInfoWalletInfo(wallet_info, info)
                /\ pc' = "d_save_launcher"
                /\ UNCHANGED <<obj, result>>
    /\ UNCHANGED <<ledger, height, wallets, user_store, ops, hist>>

\* the store takes the DAOInfo with the launcher id
NewDaoSaveLauncher ==
    /\ pc = "d_save_launcher"
    /\ user_store' = UpdateWallet(user_store, wallet_info)
    /\ pc' = "d_create_cat"
    /\ UNCHANGED <<ledger, height, wallets, obj, dao_info, wallet_info,
                   frame, result, ops, hist>>

\* DAOCATWallet.create_new_cat_wallet mints under the tail and registers the
\* wallet, or raises; lines 621-634 up to the await of save_info
NewDaoCreateCat ==
    /\ pc = "d_create_cat"
    /\ \/ /\ NewDaoReturn(frame.caller, "error", "cat_wallet")
          /\ UNCHANGED <<wallets, user_store, dao_info, wallet_info>>
       \/ LET cat_wallet_id == Len(user_store) + 1
              info == DAOInfo(dao_info.treasury_id, cat_wallet_id,
                          dao_info.proposals_list, dao_info.parent_info, None, None)
          IN  /\ user_store' = CreateWallet(user_store, "DAO CAT", "DAO_CAT",
                        [tail_hash |-> TreeHash(frame.cat_tail), my_tail |-> frame.cat_tail])
              /\ wallets' = AddNewWallet(wallets, cat_wallet_id, "DAO_CAT",
                        TreeHash(frame.cat_tail))
              /\ frame' = [frame EXCEPT !.cat_wallet_id = cat_wallet_id]
              /\ dao_info' = info
              /\ wallet_info' = SaveInfoWalletInfo(wallet_info, info)
              /\ pc' = "d_save_cat"
              /\ UNCHANGED <<obj, result>>
    /\ UNCHANGED <<ledger, height, ops, hist>>

\* the store takes the DAOInfo with the token wallet id
NewDaoSaveCat ==
    /\ pc = "d_save_cat"
    /\ user_store' = UpdateWallet(user_store, wallet_info)
    /\ pc' = "d_signed_tx"
    /\ hist' = [hist EXCEPT !.treasury_tail =
                    get_cat_tail_hash_from_treasury_puzzle(DaoTreasuryPuzzle(frame))]
    /\ UNCHANGED <<ledger, height, wallets, obj, dao_info, wallet_info,
                   frame, result, ops>>

\* tx_record = await generate_signed_transaction(...): a record or None;
\* lines 656-671 up to the await in add_parent of the launcher id
NewDaoSignedTx ==
    /\ pc = "d_signed_tx"
    /\ \E tx_record \in {None, [spend_bundle |-> LauncherFunding(frame,
                TreeHash(curry_singleton(CoinName(frame.launcher_coin),
                                         DaoTreasuryPuzzle(frame))))]} :
        LET info == AddParentInfo(dao_info, CoinName(frame.launcher_coin),
                        EveParent(frame.launcher_coin))
        IN  /\ frame' = [frame EXCEPT !.tx_record = tx_record]
            /\ dao_info' = info
            /\ wallet_info' = SaveInfoWalletInfo(wallet_info, info)
    /\ pc' = "d_save_eve_parent"
    /\ UNCHANGED <<ledger, height, wallets, user_store, obj, result,
                   ops, hist>>

\* the store takes the launcher's lineage; add_parent of the eve coin runs
\* up to its await
NewDaoSaveEveParent ==
    /\ pc = "d_save_eve_parent"
    /\ user_store' = UpdateWallet(user_store, wallet_info)
    /\ LET inner == DaoTreasuryPuzzle(frame)
           eve_coin == EveCoin(frame.launcher_coin, inner)
           info == AddParentInfo(dao_info, CoinName(eve_coin),
                        EveFutureParent(eve_coin, inner))
       IN  /\ dao_info' = info
           /\ wallet_info' = SaveInfoWalletInfo(wallet_info, info)
    /\ pc' = "d_save_future_parent"
    /\ UNCHANGED <<ledger, height, wallets, obj, frame, result, ops, hist>>

\* the store takes the eve coin's lineage; without a funding transaction
\* generate_new_dao returns None (line 674), else it goes on to the pending
\* transactions
NewDaoSaveFutureParent ==
    /\ pc = "d_save_future_parent"
    /\ user_store' = UpdateWallet(user_store, wallet_info)
    /\ IF frame.tx_record = None
       THEN NewDaoReturn(frame.caller, "none", "no_tx_record")
       ELSE pc' = "d_pending" /\ UNCHANGED <<frame, result, obj>>
    /\ UNCHANGED <<ledger, height, wallets, dao_info, wallet_info,
                   ops, hist>>

\* full_spend (lines 677-683)
NewDaoFullSpend(f) ==
    LET inner == DaoTreasuryPuzzle(f)
        full_treasury_puzzle == curry_singleton(CoinName(f.launcher_coin), inner)
        eve_coin == EveCoin(f.launcher_coin, inner)
    IN  FullSpend(f.tx_record.spend_bundle,
                  TreasuryEveSpend(eve_coin, full_treasury_puzzle, inner, f.launcher_coin),
                  <<LauncherCs(f.launcher_coin, TreeHash(full_treasury_puzzle))>>)

\* add_pending_transaction, add_interested_puzzle_hashes; the DAOInfo of
\* lines 711-718 is built and dropped; breakpoint() resumes or quits
NewDaoPending ==
    /\ pc = "d_pending"
    /\ \/ /\ NewDaoReturn(frame.caller, "ok", "")
          /\ hist' = [hist EXCEPT !.returned = NewDaoFullSpend(frame)]
       \/ /\ NewDaoReturn(frame.caller, "error", "breakpoint")
          /\ UNCHANGED hist
    /\ UNCHANGED <<ledger, height, wallets, user_store, dao_info,
                   wallet_info, ops>>

-----------------------------------------------------------------------------
(* DAOWallet.generate_new_proposal *)

ProposedPuzzleHashes == {TreeHash([mod |-> "proposed"])}

ProposalFrame(proposed_puzzle_hash, fee) ==
    [op |-> "proposal", proposed_puzzle_hash |-> proposed_puzzle_hash,
     fee |-> fee, origin |-> ZeroId, launcher_coin |-> None,
     cat_tail_hash |-> None, tx_record |-> None]

\* dao_proposal_puzzle (lines 758-763)
DaoProposalPuzzle(f, treasury_id) ==
    get_proposal_puzzle(CoinName(f.launcher_coin), f.cat_tail_hash, treasury_id,
                        f.proposed_puzzle_hash)

\* cat_wallet.cat_info.my_tail of the stored wallet can be read
HasTail(store, cat_wallet_id) ==
    /\ cat_wallet_id \in DOMAIN store
    /\ store[cat_wallet_id].type \in {"CAT", "DAO_CAT"}
    /\ store[cat_wallet_id].data.my_tail # None

\* the call, up to the await of select_coins
ProposalCall ==
    /\ obj = "live" /\ pc = "idle" /\ ops < MaxOps
    /\ ops' = ops + 1
    /\ \E h \in ProposedPuzzleHashes : frame' = ProposalFrame(h, 0)
    /\ pc' = "p_select_coins"
    /\ hist' = CallHist(hist, dao_info, StoredInfo, FALSE)
    /\ UNCHANGED <<ledger, height, wallets, user_store, obj, dao_info,
                   wallet_info, result>>

\* coins = await self.standard_wallet.select_coins(fee + 1)
ProposalSelectCoins ==
    /\ pc = "p_select_coins"
    /\ \/ Finish("proposal", "none", "no_coins")
       \/ \E origin \in Origins :
            /\ pc' = "p_get_wallet"
            /\ frame' = [frame EXCEPT !.origin = origin,
                                      !.launcher_coin = LauncherCoin(origin)]
            /\ UNCHANGED result
    /\ UNCHANGED <<ledger, height, wallets, user_store, obj, dao_info,
                   wallet_info, ops, hist>>

\* cat_wallet = await user_store.get_wallet_by_id(self.dao_info.cat_wallet_id)
ProposalGetWallet ==
    /\ pc = "p_get_wallet"
    /\ IF HasTail(user_store, dao_info.cat_wallet_id)
       THEN /\ pc' = "p_signed_tx"
            /\ frame' = [frame EXCEPT !.cat_tail_hash =
                            TreeHash(user_store[dao_info.cat_wallet_id].data.my_tail)]
            /\ UNCHANGED result
       ELSE Finish("proposal", "error", "no_tail")
    /\ UNCHANGED <<ledger, height, wallets, user_store, obj, dao_info,
                   wallet_info, ops, hist>>

\* tx_record = await generate_signed_transaction(...); lines 776-793 up to
\* the await in add_parent of the launcher id
ProposalSignedTx ==
    /\ pc = "p_signed_tx"
    /\ \E tx_record \in {None, [spend_bundle |-> LauncherFunding(frame,
                TreeHash(curry_singleton(CoinName(frame.launcher_coin),
                                         DaoProposalPuzzle(frame, dao_info.treasury_id))))]} :
        LET info == AddParentInfo(dao_info, CoinName(frame.launcher_coin),
                        EveParent(frame.launcher_coin))
        IN  /\ frame' = [frame EXCEPT !.tx_record = tx_record]
            /\ dao_info' = info
            /\ wallet_info' = SaveInfoWalletInfo(wallet_info, info)
    /\ pc' = "p_save_eve_parent"
    /\ UNCHANGED <<ledger, height, wallets, user_store, obj, result, ops, hist>>

\* the store takes the launcher's lineage; add_parent of the eve coin runs
\* up to its await
ProposalSaveEveParent ==
    /\ pc = "p_save_eve_parent"
    /\ user_store' = UpdateWallet(user_store, wallet_info)
    /\ LET inner == DaoProposalPuzzle(frame, dao_info.treasury_id)
           eve_coin == EveCoin(frame.launcher_coin, inner)
           info == AddParentInfo(dao_info, CoinName(eve_coin),
                        EveFutureParent(eve_coin, inner))
       IN  /\ dao_info' = info
           /\ wallet_info' = SaveInfoWalletInfo(wallet_info, info)
    /\ pc' = "p_save_future_parent"
    /\ UNCHANGED <<ledger, height, wallets, obj, frame, result, ops, hist>>

\* the store takes the eve coin's lineage; the bundle is aggregated (reading
\* tx_record.spend_bundle) and generate_new_proposal returns without a value
ProposalSaveFutureParent ==
    /\ pc = "p_save_future_parent"
    /\ user_store' = UpdateWallet(user_store, wallet_info)
    /\ IF frame.tx_record = None
       THEN Finish("proposal", "error", "no_tx_record")
       ELSE Finish("proposal", "none", "")
    /\ UNCHANGED <<ledger, height, wallets, obj, dao_info, wallet_info, ops, hist>>

-----------------------------------------------------------------------------
(* DAOWallet.create_new_dao_and_wallet *)

\* lines 101-125 up to the await of create_wallet; the balance covers the
\* amount or it does not
CreateCall ==
    /\ obj = "none" /\ pc = "idle" /\ ops = 0
    /\ ops' = ops + 1
    /\ \E enough \in BOOLEAN :
        IF enough
        THEN /\ dao_info' = DAOInfo(ZeroId, 0, <<>>, <<>>, None, None)
             /\ wallet_info' = None
             /\ obj' = "new"
             /\ pc' = "c_create_wallet"
             /\ frame' = [op |-> "create", amount_of_cats |-> 1, fee |-> 0]
             /\ UNCHANGED result
        ELSE /\ Finish("create", "error", "balance")
             /\ UNCHANGED <<dao_info, wallet_info, obj>>
    /\ hist' = CallHist(hist, None, None, FALSE)
    /\ UNCHANGED <<ledger, height, wallets, user_store>>

\* the store creates the record; generate_new_dao is entered
CreateCreateWallet ==
    /\ pc = "c_create_wallet"
    /\ user_store' = CreateWallet(user_store, "Profile 1", "DAO", ToJson(dao_info))
    /\ wallet_info' = WalletInfo(Len(user_store) + 1, "Profile 1", "DAO", ToJson(dao_info))
    /\ NewDaoEnter("create", CreateArgs(frame.amount_of_cats, frame.fee), ToJson(dao_info))
    /\ UNCHANGED <<ledger, height, wallets, dao_info, ops>>

\* mutant: the exception is raised and the record is left in the store
CreateDeleteWalletKeep ==
    /\ pc = "c_delete_wallet"
    /\ obj' = "none"
    /\ Finish("create", "error", frame.cause)
    /\ UNCHANGED <<ledger, height, wallets, user_store, dao_info, wallet_info,
                   ops, hist>>

\* user_store.delete_wallet(self.id()), then the exception is raised
CreateDeleteWallet ==
    /\ pc = "c_delete_wallet"
    /\ user_store' = [user_store EXCEPT ![wallet_info.id] = None]
    /\ obj' = "none"
    /\ Finish("create", "error", frame.cause)
    /\ UNCHANGED <<ledger, height, wallets, dao_info, wallet_info,
                   ops, hist>>

\* add_new_wallet; the constructor returns the wallet
CreateAddWallet ==
    /\ pc = "c_add_wallet"
    /\ wallets' = AddNewWallet(wallets, wallet_info.id, "DAO", None)
    /\ obj' = "live"
    /\ Finish("create", "ok", "")
    /\ UNCHANGED <<ledger, height, user_store, dao_info, wallet_info,
                   ops, hist>>

-----------------------------------------------------------------------------
(* The host process *)

\* the awaits of update_wallet inside save_info: self.dao_info is set and
\* the store has not taken it
SavePending ==
    {"r_save_prior", "r_save_tip", "r_save_info", "i_save_info",
     "d_save_launcher", "d_save_cat", "d_save_eve_parent",
     "d_save_future_parent", "p_save_eve_parent", "p_save_future_parent"}

\* The process stops between the two steps of save_info: the write does not
\* reach the store and nothing runs after it.
Crash ==
    /\ pc \in SavePending
    /\ pc' = "crashed"
    /\ UNCHANGED <<ledger, height, wallets, user_store, obj, dao_info,
                   wallet_info, frame, result, ops, hist>>

-----------------------------------------------------------------------------

Next ==
    \/ LedgerAdvance
    \/ ResyncCall
    \/ ResyncFetchFirst
    \/ ResyncLoop
    \/ ResyncPuzzleSolution
    \/ ResyncSavePrior
    \/ ResyncConvert
    \/ ResyncCreateCat
    \/ ResyncSaveTip
    \/ ResyncSaveInfo
    \/ ImportCall
    \/ ImportCreateWallet
    \/ ImportAddWallet
    \/ ImportSaveInfo
    \/ NewDaoCall
    \/ NewDaoSelectCoins
    \/ NewDaoSelectCatCoins
    \/ NewDaoSaveLauncher
    \/ NewDaoCreateCat
    \/ NewDaoSaveCat
    \/ NewDaoSignedTx
    \/ NewDaoSaveEveParent
    \/ NewDaoSaveFutureParent
    \/ NewDaoPending
    \/ ProposalCall
    \/ ProposalSelectCoins
    \/ ProposalGetWallet
    \/ ProposalSignedTx
    \/ ProposalSaveEveParent
    \/ ProposalSaveFutureParent
    \/ CreateCall
    \/ CreateCreateWallet
    \/ CreateDeleteWallet
    \/ CreateAddWallet
    \/ Crash

Spec == Init /\ [][Next]_vars

\* The wallet made by import and resynced after it: the walk reads the
\* treasury id and the ledger, which no other operation of an imported
\* wallet writes.
WalkNext ==
    \/ LedgerAdvance
    \/ ImportCall
    \/ ImportCreateWallet
    \/ ImportAddWallet
    \/ ImportSaveInfo
    \/ ResyncCall
    \/ ResyncFetchFirst
    \/ ResyncLoop
    \/ ResyncPuzzleSolution
    \/ ResyncSavePrior
    \/ ResyncConvert
    \/ ResyncCreateCat
    \/ ResyncSaveTip
    \/ ResyncSaveInfo

\* A generate_new_proposal runs as a second coroutine on the wallet while a
\* resync started by the host is suspended at an await: its two add_parent
\* calls (lines 793-794), each up to the await of update_wallet.  The store
\* applies the calls of update_wallet in the order they were made: a call
\* made while the resync waits for its own is applied right after that one
\* and before the next one the resync makes, so the two are applied in one
\* step; a call made at another await of the resync is applied at once.
OtherAddParent ==
    /\ obj = "live" /\ pc \notin {"idle", "crashed"}
    /\ frame.op = "resync"
    /\ HasTail(user_store, dao_info.cat_wallet_id)
    /\ Len(hist.overlap) < 2
    /\ \E origin \in Origins, h \in ProposedPuzzleHashes :
        LET f == [ProposalFrame(h, 0) EXCEPT
                    !.origin = origin,
                    !.launcher_coin = LauncherCoin(origin),
                    !.cat_tail_hash =
                        TreeHash(user_store[dao_info.cat_wallet_id].data.my_tail)]
            inner == DaoProposalPuzzle(f, dao_info.treasury_id)
            eve_coin == EveCoin(f.launcher_coin, inner)
            entry == IF Len(hist.overlap) = 0
                     THEN <<CoinName(f.launcher_coin), EveParent(f.launcher_coin)>>
                     ELSE <<CoinName(eve_coin), EveFutureParent(eve_coin, inner)>>
            info == AddParentInfo(dao_info, entry[1], entry[2])
        IN  /\ dao_info' = info
            /\ wallet_info' = SaveInfoWalletInfo(wallet_info, info)
            /\ user_store' = IF pc \in SavePending THEN user_store
                             ELSE UpdateWallet(user_store, wallet_info')
            /\ hist' = [hist EXCEPT !.overlap = Append(@, entry)]
    /\ UNCHANGED <<ledger, height, wallets, obj, pc, frame, result, ops>>

\* The operations of WalkNext without the caller's lock
RaceNext ==
    \/ WalkNext
    \/ OtherAddParent

RaceSpec == Init /\ [][RaceNext]_vars

\* The event loop resumes a coroutine whose await has completed, and the
\* peer answers every query: the steps of the walk are taken when they can
\* be.
LiveSpec ==
    Init /\ [][WalkNext]_vars /\ WF_vars(ResyncFetchFirst) /\ WF_vars(ResyncLoop)

-----------------------------------------------------------------------------
(* What the properties speak about *)

\* the (coin id, proof) entries of a lineage table
Entries(parent_info) == {parent_info[i] : i \in DOMAIN parent_info}

Keys(parent_info) == {parent_info[i][1] : i \in DOMAIN parent_info}

\* the wallet has a record in the store
HasRecord ==
    /\ wallet_info # None
    /\ user_store[wallet_info.id] # None

\* no operation is running on a wallet that exists
Settled == pc = "idle" /\ obj = "live"

\* the last operation was a resync, alone or inside the import, and returned
ResyncReturned ==
    /\ Settled
    /\ result # None
    /\ result.op \in {"resync", "import"}
    /\ result.status = "ok"

\* The walk the protocol defines on a ledger l: from a coin id, follow the
\* child of odd amount until a coin has no children.  The value is the
\* sequence of the coins passed, the tip last.
RECURSIVE OddPath(_, _)
OddPath(l, coin_id) ==
    LET odd == OddChildrenOf(l, coin_id)
    IN  IF odd = {} THEN <<>>
        ELSE LET c == CHOOSE x \in odd : TRUE
             IN  <<c>> \o OddPath(l, CoinName(c))

\* the ids of the coins between a coin and the treasury id, both excluded
RECURSIVE AncestorsUpTo(_, _)
AncestorsUpTo(coin_id, treasury_id) ==
    IF Len(coin_id) # 3 \/ coin_id[1] = treasury_id THEN {}
    ELSE {coin_id[1]} \cup AncestorsUpTo(coin_id[1], treasury_id)

-----------------------------------------------------------------------------
(* C1 *)

NoContradiction(parent_info) ==
    \A i, j \in DOMAIN parent_info :
        parent_info[i][1] = parent_info[j][1] => parent_info[i][2] = parent_info[j][2]

\* C1: in every state the lineage table, in memory and in the store, holds
\* no two entries with the same coin id and different proofs.
C1_NoContradictoryProofs ==
    /\ dao_info # None => NoContradiction(dao_info.parent_info)
    /\ HasRecord => NoContradiction(FromJson(StoredInfo).parent_info)

\* a resync has returned and the table holds one coin id twice
C1_Witness ==
    /\ ResyncReturned
    /\ \E i, j \in DOMAIN dao_info.parent_info :
        i # j /\ dao_info.parent_info[i][1] = dao_info.parent_info[j][1]

-----------------------------------------------------------------------------
(* C2 *)

\* C2: when two resyncs of one treasury id returned and the ledger at the
\* last fetch_children of the second was the ledger at the last
\* fetch_children of the first, the second left the current coin and the
\* current inner puzzle the first had left.
C2_IdempotentAtTip ==
    (/\ hist.prev_sync # None
     /\ hist.last_sync # None
     /\ hist.prev_sync.treasury_id = hist.last_sync.treasury_id
     /\ hist.prev_sync.tip_ledger = hist.last_sync.tip_ledger)
    => /\ hist.last_sync.coin = hist.prev_sync.coin
       /\ hist.last_sync.innerpuz = hist.prev_sync.innerpuz

\* a second resync has returned on an unchanged chain whose last spend
\* changed the inner puzzle
C2_Witness ==
    /\ ResyncReturned
    /\ result.op = "resync"
    /\ hist.prev_sync # None
    /\ hist.prev_sync.treasury_id = hist.last_sync.treasury_id
    /\ hist.prev_sync.tip_ledger = hist.last_sync.tip_ledger
    /\ dao_info.current_treasury_coin = hist.last_sync.coin
    /\ dao_info.current_treasury_coin.puzzle_hash
         # TreeHash(SpendOf(ledger, dao_info.current_treasury_coin.parent_coin_info).puzzle_reveal)

-----------------------------------------------------------------------------
(* C3 *)

\* C3: after a completed operation, when the current coin is present, every
\* coin between it and the treasury id is a key of the lineage table.
C3_Claim ==
    (Settled /\ dao_info.current_treasury_coin # None)
    => AncestorsUpTo(CoinName(dao_info.current_treasury_coin), dao_info.treasury_id)
         \subseteq Keys(dao_info.parent_info)

-----------------------------------------------------------------------------
(* C4 *)

\* C4: no step of the wallet takes an entry out of the lineage table, in
\* memory or in the store.
C4_Claim ==
    [][(HasRecord /\ HasRecord' /\ wallet_info'.id = wallet_info.id)
       => /\ Entries(dao_info.parent_info) \subseteq Entries(dao_info'.parent_info)
          /\ Entries(FromJson(StoredInfo).parent_info)
               \subseteq Entries(FromJson(StoredInfo').parent_info)]_vars

-----------------------------------------------------------------------------
(* C5 *)

\* the proof the claim names for the tip
TipProof(info) ==
    LineageProof(info.current_treasury_coin.parent_coin_info,
                 TreeHash(info.current_treasury_innerpuz),
                 info.current_treasury_coin.amount)

\* C5: after a resync that returned, the lineage table in memory and in
\* the store has the entry (id of the tip, (parent of the tip, hash of the
\* current inner puzzle, amount of the tip)).
C5_Claim ==
    ResyncReturned
    => /\ <<CoinName(dao_info.current_treasury_coin), TipProof(dao_info)>>
            \in Entries(dao_info.parent_info)
       /\ <<CoinName(dao_info.current_treasury_coin), TipProof(dao_info)>>
            \in Entries(FromJson(StoredInfo).parent_info)

-----------------------------------------------------------------------------
(* C6 *)

\* C6: after a completed operation the current coin, when present, is the
\* coin the last returned resync of this treasury id reached: the last coin
\* on the path of odd-amount children from the treasury id in the ledger of
\* its last fetch_children, which held no children for it.
C6_CurrentCoinIsTip ==
    (Settled /\ dao_info.current_treasury_coin # None)
    => /\ hist.last_sync # None
       /\ hist.last_sync.treasury_id = dao_info.treasury_id
       /\ LET path == OddPath(hist.last_sync.tip_ledger, dao_info.treasury_id)
          IN  /\ path # <<>>
              /\ dao_info.current_treasury_coin = path[Len(path)]
       /\ FetchChildren(hist.last_sync.tip_ledger,
                        CoinName(dao_info.current_treasury_coin)) = <<>>

\* a resync has returned at the end of a chain of three hops, one of which
\* left an even-amount child before the odd one
C6_Witness ==
    /\ ResyncReturned
    /\ Len(OddPath(hist.last_sync.tip_ledger, dao_info.treasury_id)) = 3
    /\ dao_info.current_treasury_coin # None
    /\ \E s \in hist.last_sync.tip_ledger : Len(s.children) = 2

-----------------------------------------------------------------------------
(* C7 *)

\* C7: after a resync that returned, the wallet cat_wallet_id names has the
\* tail hash of the treasury inner puzzle.
C7_Claim ==
    ResyncReturned
    => /\ dao_info.cat_wallet_id \in DOMAIN wallets
       /\ wallets[dao_info.cat_wallet_id].tail_hash
            = get_cat_tail_hash_from_treasury_puzzle(dao_info.current_treasury_innerpuz)

-----------------------------------------------------------------------------
(* C8 *)

\* the spend of the parent of the tip, in the ledger of the last resync
PenultimateSpend ==
    SpendOf(hist.last_sync.tip_ledger, dao_info.current_treasury_coin.parent_coin_info)

\* C8: after a resync that returned, the current inner puzzle is the inner
\* puzzle of the penultimate spend's puzzle reveal when the hash of that
\* reveal is the puzzle hash of the tip, and else the puzzle decoded from
\* the inner solution of that spend.
C8_Classification ==
    ResyncReturned
    => dao_info.current_treasury_innerpuz =
         IF TreeHash(PenultimateSpend.puzzle_reveal)
              = dao_info.current_treasury_coin.puzzle_hash
         THEN PenultimateSpend.puzzle_reveal.innerpuz
         ELSE get_new_puzzle_from_treasury_solution(
                 PenultimateSpend.puzzle_reveal.innerpuz,
                 PenultimateSpend.solution.inner_solution)

\* a resync has returned after a steady-state spend
C8_Witness ==
    /\ ResyncReturned
    /\ TreeHash(PenultimateSpend.puzzle_reveal)
         # dao_info.current_treasury_coin.puzzle_hash
    /\ dao_info.current_treasury_innerpuz # PenultimateSpend.puzzle_reveal.innerpuz

-----------------------------------------------------------------------------
(* C9 *)

\* On the ledger l the walk from a treasury id meets a coin with children
\* none of which has an odd amount.
RECURSIVE MeetsNoOddChild(_, _)
MeetsNoOddChild(l, coin_id) ==
    /\ coin_id \in SpentIds(l)
    /\ Len(SpendOf(l, coin_id).children) > 0
    /\ IF OddChildrenOf(l, coin_id) = {} THEN TRUE
       ELSE MeetsNoOddChild(l, CoinName(CHOOSE c \in OddChildrenOf(l, coin_id) : TRUE))

\* On the ledger l the walk from a treasury id ends after two hops or more
\* and the spend of the penultimate coin changed the puzzle with a solution
\* that has no inner solution or one that does not decode.
PenultimateUndecodable(l, treasury_id) ==
    LET path == OddPath(l, treasury_id)
    IN  /\ ~MeetsNoOddChild(l, treasury_id)
        /\ Len(path) >= 2
        /\ LET spend == SpendOf(l, CoinName(path[Len(path) - 1]))
           IN  /\ TreeHash(spend.puzzle_reveal) # path[Len(path)].puzzle_hash
               /\ \/ "inner_solution" \notin DOMAIN spend.solution
                  \/ ~spend.solution.inner_solution.decodable

ProtocolViolation(l, treasury_id) ==
    MeetsNoOddChild(l, treasury_id) \/ PenultimateUndecodable(l, treasury_id)

\* a resync has ended and the ledger of its last fetch_children held a
\* protocol violation on the chain of its treasury id
EndedOnViolation ==
    /\ pc = "idle"
    /\ result # None
    /\ result.op \in {"resync", "import"}
    /\ hist.pre_info # None
    /\ ProtocolViolation(hist.seen_ledger, hist.pre_info.treasury_id)

\* C9: a resync that meets children without an odd amount, or a penultimate
\* spend that cannot be decoded, ends with an exception, and DAOInfo in
\* memory and in the store and the wallet registry are as they were at the
\* call.
C9_ViolationIsFatal ==
    EndedOnViolation
    => /\ result.status = "error"
       /\ result.cause \in {"no_odd_child", "malformed_solution", "undecodable"}
       /\ dao_info = hist.pre_info
       /\ StoredInfo = hist.pre_store
       /\ wallets = hist.pre_wallets

\* a resync of a wallet with a lineage table has ended at children without
\* an odd amount
C9_Witness ==
    /\ EndedOnViolation
    /\ MeetsNoOddChild(hist.seen_ledger, hist.pre_info.treasury_id)
    /\ result.cause = "no_odd_child"
    /\ hist.pre_info.parent_info # <<>>

-----------------------------------------------------------------------------
(* C10 *)

\* C10: a resync called without a peer has ended at once with an exception,
\* has sent no query, and DAOInfo in memory and in the store are as they
\* were at the call.
C10_NoPeerFailsAtOnce ==
    hist.no_peer
    => /\ pc = "idle"
       /\ result.status = "error"
       /\ result.cause = "no_peer"
       /\ hist.queries = 0
       /\ dao_info = hist.pre_info
       /\ StoredInfo = hist.pre_store
       /\ wallets = hist.pre_wallets

\* a resync of a wallet that has a tip found no peer
C10_Witness ==
    /\ hist.no_peer
    /\ result.op = "resync"
    /\ result.cause = "no_peer"
    /\ dao_info.current_treasury_coin # None

-----------------------------------------------------------------------------
(* What the creation properties speak about *)

\* the last generate_new_dao, called alone or by create_new_dao_and_wallet,
\* returned a bundle
BundleReturned == hist.args # None /\ hist.returned # None

\* the ids below number the records and wallets that were not there at the
\* last call
NewRecords == DOMAIN user_store \ DOMAIN hist.pre_records

NewWallets == DOMAIN wallets \ DOMAIN hist.pre_wallets

IsTokenType(type) == type \in {"CAT", "DAO_CAT"}

\* the announcements the spends of a bundle assert
AssertedAnnouncements(bundle) ==
    UNION {IF "assert_coin_announcement" \in DOMAIN bundle[i].solution
           THEN bundle[i].solution.assert_coin_announcement
           ELSE {} : i \in DOMAIN bundle}

\* the announcements the spends of a bundle create: a launcher announces the
\* tree hash of its solution under its own coin id
CreatedAnnouncements(bundle) ==
    {Announcement(CoinName(bundle[i].coin), TreeHash(bundle[i].solution)) :
        i \in {j \in DOMAIN bundle : bundle[j].puzzle_reveal = SINGLETON_LAUNCHER}}

\* the treasury puzzle the arguments and the tail of the last creation give
ExpectedTreasuryPuzzle(launcher_id) ==
    get_treasury_puzzle(launcher_id, hist.treasury_tail, hist.args.amount_of_cats,
        hist.args.attendance_required_percentage,
        hist.args.proposal_pass_percentage, hist.args.proposal_timelock)

ExpectedEveCoin(launcher_id) ==
    Coin(launcher_id,
         TreeHash(curry_singleton(launcher_id, ExpectedTreasuryPuzzle(launcher_id))), 1)

-----------------------------------------------------------------------------
(* C11 *)

\* C11: a generate_new_dao called with a pass percentage above 10000 or
\* below 0 has ended with an exception, has called select_coins not once,
\* and DAOInfo in memory and in the store, the stored records and the
\* wallet registry are as they were at the call.
C11_PassPercentageChecked ==
    (/\ hist.args # None
     /\ \/ hist.args.proposal_pass_percentage > 10000
        \/ hist.args.proposal_pass_percentage < 0)
    => /\ pc = "idle"
       /\ result.op = "new_dao"
       /\ result.status = "error"
       /\ hist.selects = 0
       /\ dao_info = hist.pre_info
       /\ StoredInfo = hist.pre_store
       /\ user_store = hist.pre_records
       /\ wallets = hist.pre_wallets

\* a wallet with a lineage table was asked for a treasury with a pass
\* percentage of 10001 and refused
C11_Witness ==
    /\ hist.args # None
    /\ hist.args.proposal_pass_percentage = 10001
    /\ result.cause = "pass_percentage"
    /\ dao_info.parent_info # <<>>

-----------------------------------------------------------------------------
(* C12 *)

\* C12: a generate_new_dao called with an attendance percentage above 10000
\* or below 0 has ended with an exception, has called select_coins not once,
\* and has changed nothing.
C12_Claim ==
    (/\ hist.args # None
     /\ \/ hist.args.attendance_required_percentage > 10000
        \/ hist.args.attendance_required_percentage < 0)
    => /\ pc = "idle"
       /\ result.op = "new_dao"
       /\ result.status = "error"
       /\ hist.selects = 0
       /\ dao_info = hist.pre_info
       /\ StoredInfo = hist.pre_store
       /\ user_store = hist.pre_records
       /\ wallets = hist.pre_wallets

-----------------------------------------------------------------------------
(* C13 *)

\* C13: when generate_new_dao has returned a bundle, the stored DAOInfo has
\* the launcher id as treasury id, the id of the token wallet of the minting
\* as cat_wallet_id, the prospective treasury coin as current coin with the
\* treasury inner puzzle, and lineage entries for the launcher and the eve
\* coin.
C13_Claim ==
    BundleReturned
    => LET stored == FromJson(StoredInfo)
           launcher_id == stored.treasury_id
           eve_coin == ExpectedEveCoin(launcher_id)
       IN  /\ launcher_id \in LauncherIds
           /\ stored.cat_wallet_id \in NewWallets
           /\ wallets[stored.cat_wallet_id].tail_hash = hist.treasury_tail
           /\ {launcher_id, CoinName(eve_coin)} \subseteq Keys(stored.parent_info)
           /\ stored.current_treasury_coin # None
           /\ stored.current_treasury_coin
                = Coin(CoinName(eve_coin), eve_coin.puzzle_hash, eve_coin.amount)
           /\ stored.current_treasury_innerpuz = ExpectedTreasuryPuzzle(launcher_id)

-----------------------------------------------------------------------------
(* C14 *)

\* a treasury creation has ended without a bundle
CreationFailed ==
    /\ pc = "idle"
    /\ result # None
    /\ result.op \in {"create", "new_dao"}
    /\ result.status # "ok"

\* C14: when a treasury creation has ended without a bundle, no token wallet
\* made since its call is left in the store or in the wallet registry.
C14_Claim ==
    CreationFailed
    => /\ \A i \in NewRecords :
            user_store[i] = None \/ ~IsTokenType(user_store[i].type)
       /\ \A i \in NewWallets : ~IsTokenType(wallets[i].type)

-----------------------------------------------------------------------------
(* C15 *)

\* a treasury creation has ended because the balance did not cover the
\* supply or the first select_coins gave no coins
FundingFailed ==
    /\ pc = "idle"
    /\ result # None
    /\ result.op \in {"create", "new_dao"}
    /\ result.cause \in {"balance", "no_coins"}

-----------------------------------------------------------------------------
(* C16 *)

\* C16: in a bundle generate_new_dao returned, every announcement asserted
\* is created by a spend of the bundle, the funding spend asserts the
\* announcement (launcher id, hash of [full treasury puzzle hash, 1, empty
\* extra]), and the launcher spend has that list as its solution.
C16_Claim ==
    BundleReturned
    => LET bundle == hist.returned
           launcher_id == FromJson(StoredInfo).treasury_id
           expected == [puzzle_hash |-> ExpectedEveCoin(launcher_id).puzzle_hash,
                        amount |-> 1, extra |-> ZeroBytes(0)]
       IN  /\ AssertedAnnouncements(bundle) \subseteq CreatedAnnouncements(bundle)
           /\ Announcement(launcher_id, TreeHash(expected)) \in AssertedAnnouncements(bundle)
           /\ \E i \in DOMAIN bundle :
                /\ bundle[i].puzzle_reveal = SINGLETON_LAUNCHER
                /\ CoinName(bundle[i].coin) = launcher_id
                /\ bundle[i].solution = expected

-----------------------------------------------------------------------------
(* C17 *)

\* C17: a bundle generate_new_dao returned for percentages within range has
\* three coin spends: of the origin coin, of the launcher coin (origin id,
\* launcher puzzle hash, 1) and of the eve coin (launcher id, full treasury
\* puzzle hash, 1); the funding spend pays 1 to the launcher and the launcher
\* is solved for amount 1.
C17_ThreeCoinSpends ==
    (/\ BundleReturned
     /\ hist.args.attendance_required_percentage \in 0..10000
     /\ hist.args.proposal_pass_percentage \in 0..10000)
    => LET bundle == hist.returned
       IN  /\ Len(bundle) = 3
           /\ \E origin \in Origins :
                LET launcher_coin == Coin(origin, TreeHash(SINGLETON_LAUNCHER), 1)
                    eve_coin == ExpectedEveCoin(CoinName(launcher_coin))
                IN  /\ {bundle[i].coin : i \in DOMAIN bundle}
                         = {[name |-> origin], launcher_coin, eve_coin}
                    /\ \A i \in DOMAIN bundle :
                         /\ bundle[i].coin = [name |-> origin]
                              => bundle[i].solution.create_coin = launcher_coin
                         /\ bundle[i].coin = launcher_coin
                              => /\ bundle[i].solution.amount = 1
                                 /\ bundle[i].solution.puzzle_hash = eve_coin.puzzle_hash
                         /\ bundle[i].coin = eve_coin
                              => /\ bundle[i].solution.my_amount = 1
                                 /\ TreeHash(bundle[i].puzzle_reveal) = eve_coin.puzzle_hash

\* create_new_dao_and_wallet has returned a wallet
C17_Witness ==
    /\ BundleReturned
    /\ pc = "idle"
    /\ result.op = "create"
    /\ result.status = "ok"
    /\ obj = "live"

-----------------------------------------------------------------------------
(* C18 *)

\* a generate_new_proposal has ended after it built its proposal puzzle
ProposalBuilt ==
    /\ pc = "idle"
    /\ result # None
    /\ result.op = "proposal"
    /\ result.cause \in {"", "no_tx_record"}

\* the proposal puzzle whose hash the last lineage entry holds
LastProposalPuzzle ==
    dao_info.parent_info[Len(dao_info.parent_info)][2].inner_puzzle_hash.h

\* C18: the proposal puzzle a generate_new_proposal built has the tail hash
\* of the treasury the wallet last created or resynced and the treasury id
\* of DAOInfo.
C18_Claim ==
    (ProposalBuilt /\ hist.treasury_tail # None)
    => /\ LastProposalPuzzle.cat_tail_hash = hist.treasury_tail
       /\ LastProposalPuzzle.treasury_id = dao_info.treasury_id

-----------------------------------------------------------------------------
(* C19 *)

\* C19: a generate_new_proposal whose select_coins and funding transaction
\* succeeded has returned the bundle of the funding, launcher and eve spends.
C19_Claim ==
    (/\ pc = "idle"
     /\ result # None
     /\ result.op = "proposal"
     /\ result.cause = "")
    => /\ hist.returned # None
       /\ Len(hist.returned) = 3

-----------------------------------------------------------------------------
(* C20 *)

\* the DAOInfo at the call names a token wallet the store holds
BoundAtCall ==
    /\ hist.pre_info.cat_wallet_id \in DOMAIN user_store
    /\ user_store[hist.pre_info.cat_wallet_id] # None
    /\ IsTokenType(user_store[hist.pre_info.cat_wallet_id].type)

\* C20: a generate_new_dao on a DAOInfo bound to a token wallet takes the
\* tail of that wallet.
C20_Claim ==
    (pc = "d_save_launcher" /\ BoundAtCall)
    => TreeHash(frame.cat_tail)
         = user_store[hist.pre_info.cat_wallet_id].data.tail_hash

-----------------------------------------------------------------------------
(* C21 *)

\* C21: every step that creates or changes the stored DAOInfo writes the
\* DAOInfo the wallet holds in memory when the step is taken, so the store
\* holds the current or an earlier DAOInfo of the wallet, also when the
\* process stops inside save_info; and when no operation is running the
\* stored DAOInfo is the DAOInfo in memory.
C21_StoreNeverAhead ==
    /\ [][(HasRecord' /\ (~HasRecord \/ StoredInfo' # StoredInfo))
            => StoredInfo' = ToJson(dao_info)]_vars
    /\ []((pc = "idle" /\ HasRecord) => StoredInfo = ToJson(dao_info))

\* the process stopped inside the save_info that ends a resync: the DAOInfo
\* in memory has the tip and the stored one has not
C21_Witness ==
    /\ pc = "crashed"
    /\ HasRecord
    /\ dao_info.current_treasury_coin # None
    /\ FromJson(StoredInfo).current_treasury_coin = None
    /\ FromJson(StoredInfo).parent_info # <<>>

-----------------------------------------------------------------------------
(* C22 *)

\* the chain of the treasury id has, at every spent coin, a child of odd
\* amount
OneOddChildPerHop ==
    /\ dao_info # None
    /\ ~MeetsNoOddChild(ledger, dao_info.treasury_id)

\* the walk has left its loop at the first coin without children
WalkAtTip ==
    /\ pc = "r_puzzle_solution"
    /\ FetchChildren(ledger, frame.parent_coin_id) = <<>>
    /\ LET path == OddPath(ledger, dao_info.treasury_id)
       IN  /\ path # <<>>
           /\ frame.child_coin = path[Len(path)]
           /\ frame.parent_coin_id = CoinName(path[Len(path)])

\* C22: on a chain in which every spent coin of the path has a child of odd
\* amount, a walk that is in its loop leaves it at the first coin for which
\* the peer returns no children, and every pass that stays in the loop
\* moves the frontier to a child of the frontier.
C22_WalkTerminates ==
    /\ (pc = "r_loop" /\ OneOddChildPerHop) ~> WalkAtTip
    /\ [][(pc = "r_loop" /\ pc' = "r_loop")
            => /\ Len(frame'.parent_coin_id) = 3
               /\ frame'.parent_coin_id[1] = frame.parent_coin_id]_vars

\* the walk has left its loop after three hops
C22_Witness ==
    /\ WalkAtTip
    /\ Len(OddPath(ledger, dao_info.treasury_id)) = 3
    /\ hist.queries = 5

-----------------------------------------------------------------------------
(* C23 *)

\* the walk has left its loop with a prior frontier
LoopExited ==
    /\ pc \in {"r_puzzle_solution", "r_save_prior"}
    /\ frame.parent_parent_coin # None

\* the proof the claim names for the prior frontier
PriorFrontierProof(l, coin) ==
    LineageProof(coin.parent_coin_info,
                 TreeHash(SpendOf(l, CoinName(coin)).puzzle_reveal.innerpuz),
                 coin.amount)

\* C23: when the loop has ended with a prior frontier, the tip is the child
\* of odd amount of the prior frontier, selected at the last hop, and the
\* entry then appended to the lineage table is (id of the prior frontier,
\* (its parent id, hash of the inner puzzle of its spend's puzzle reveal,
\* its amount)).
C23_PriorFrontierIsParent ==
    LoopExited
    => /\ frame.child_coin.parent_coin_info = CoinName(frame.parent_parent_coin)
       /\ frame.child_coin = frame.children_state.coin
       /\ OddChildrenOf(ledger, CoinName(frame.parent_parent_coin)) = {frame.child_coin}
       /\ FetchChildren(ledger, CoinName(frame.child_coin)) = <<>>
       /\ pc = "r_save_prior"
            => dao_info.parent_info[Len(dao_info.parent_info)]
                 = <<CoinName(frame.parent_parent_coin),
                     PriorFrontierProof(ledger, frame.parent_parent_coin)>>

\* the proof of the prior frontier was appended after a walk of three hops
C23_Witness ==
    /\ LoopExited
    /\ pc = "r_save_prior"
    /\ Len(OddPath(ledger, dao_info.treasury_id)) = 3
    /\ Len(dao_info.parent_info) = 1

-----------------------------------------------------------------------------
(* C24 *)

\* a resync, alone or inside the import, has asked the peer and has ended
ResyncEnded ==
    /\ pc = "idle"
    /\ result # None
    /\ result.op \in {"resync", "import"}
    /\ hist.pre_info # None
    /\ hist.queries > 0

\* the hops of the chain of the treasury id in the ledger the resync last
\* read
HopsSeen == Len(OddPath(hist.seen_ledger, hist.pre_info.treasury_id))

\* C24: a resync that has ended on a chain of fewer than two hops has ended
\* with an exception, and DAOInfo in memory and in the store are as they
\* were at the call; a resync that returned read a chain of two hops or
\* more.
C24_ShortChainFails ==
    ResyncEnded
    => /\ HopsSeen < 2
            => /\ result.status = "error"
               /\ dao_info = hist.pre_info
               /\ StoredInfo = hist.pre_store
       /\ result.status = "ok" => HopsSeen >= 2

\* a resync of a wallet with a lineage table has ended on a chain of one hop
C24_Witness ==
    /\ ResyncEnded
    /\ HopsSeen = 1
    /\ result.cause = "no_prior_frontier"
    /\ hist.pre_info.parent_info # <<>>

-----------------------------------------------------------------------------
(* C25 *)

\* the treasury id, the token wallet id and the lineage table of a DAOInfo
Identity(info) ==
    <<info.treasury_id, info.cat_wallet_id, info.parent_info>>

\* C25: when generate_new_dao has returned None, the treasury id, the token
\* wallet id and the lineage table, in memory and in the store, are as they
\* were at the call.
C25_Claim ==
    (/\ pc = "idle"
     /\ result # None
     /\ result.op = "new_dao"
     /\ result.status = "none")
    => /\ Identity(dao_info) = Identity(hist.pre_info)
       /\ Identity(FromJson(StoredInfo)) = Identity(FromJson(hist.pre_store))

-----------------------------------------------------------------------------
(* C26 *)

\* the failures of a resync after its loop has ended at the tip
AfterTipCauses ==
    {"no_prior_frontier", "no_parent_spend", "malformed_solution",
     "undecodable", "cat_wallet"}

\* C26: when a resync has failed after it reached the tip, DAOInfo in
\* memory and in the store are as they were at the call.
C26_Claim ==
    (/\ ResyncEnded
     /\ result.status = "error"
     /\ result.cause \in AfterTipCauses)
    => /\ dao_info = hist.pre_info
       /\ StoredInfo = hist.pre_store

-----------------------------------------------------------------------------
(* C27 *)

\* a generate_new_proposal has ended
ProposalEnded ==
    /\ pc = "idle"
    /\ result # None
    /\ result.op = "proposal"

\* the fields of a DAOInfo beside the lineage table
Rest(info) ==
    <<info.treasury_id, info.cat_wallet_id, info.proposals_list,
      info.current_treasury_coin, info.current_treasury_innerpuz>>

\* the ids of the launcher and the eve coin of the proposal last built
ProposalLauncherIds == {CoinName(LauncherCoin(o)) : o \in Origins}

ProposalEveId(launcher_id) ==
    <<launcher_id, TreeHash(curry_singleton(launcher_id, LastProposalPuzzle)), 1>>

\* the entries a table has after the entries of another
Gained(after, before) == SubSeq(after, Len(before) + 1, Len(after))

\* C27: when generate_new_proposal has ended, the DAOInfo in memory and in
\* the store has the treasury id, the token wallet id, the proposals, the
\* current coin and the current inner puzzle it had at the call; a call
\* that built its proposal has added to the lineage table two entries, for
\* the id of the proposal's launcher and for the id of its eve coin, and
\* any other call none.
C27_ProposalFrame ==
    ProposalEnded
    => LET before == hist.pre_info.parent_info
           after == dao_info.parent_info
       IN  /\ Rest(dao_info) = Rest(hist.pre_info)
           /\ Rest(FromJson(StoredInfo)) = Rest(hist.pre_info)
           /\ FromJson(StoredInfo).parent_info = after
           /\ SubSeq(after, 1, Len(before)) = before
           /\ IF ProposalBuilt
              THEN /\ Len(Gained(after, before)) = 2
                   /\ Gained(after, before)[1][1] \in ProposalLauncherIds
                   /\ Gained(after, before)[2][1]
                        = ProposalEveId(Gained(after, before)[1][1])
              ELSE after = before

\* a wallet with a current coin has built a proposal
C27_Witness ==
    /\ ProposalEnded
    /\ result.cause = ""
    /\ dao_info.current_treasury_coin # None
    /\ Len(dao_info.parent_info) >= 3

-----------------------------------------------------------------------------
(* C28 *)

\* create_new_dao_wallet_for_existing_dao has ended with an exception
ImportFailed ==
    /\ pc = "idle"
    /\ result # None
    /\ result.op = "import"
    /\ result.status = "error"

\* C28: when the resync inside an import has failed, the store holds no
\* record of the DAO wallet the import made, and the wallet registry does
\* not hold the wallet.
C28_Claim ==
    ImportFailed
    => /\ user_store[wallet_info.id] = None
       /\ wallet_info.id \notin DOMAIN wallets

-----------------------------------------------------------------------------
(* C29 *)

\* a resync has returned during which a second coroutine appended lineage
\* entries
OverlapReturned ==
    /\ ResyncReturned
    /\ result.op = "resync"
    /\ hist.overlap # <<>>

\* C29: when a resync overlapped by a proposal creation has returned, the
\* lineage table in memory holds every entry either of them appended, and
\* the stored table is the table in memory.
C29_Claim ==
    OverlapReturned
    => /\ Entries(hist.overlap) \subseteq Entries(dao_info.parent_info)
       /\ <<CoinName(dao_info.current_treasury_coin), TipProof(dao_info)>>
            \in Entries(dao_info.parent_info)
       /\ FromJson(StoredInfo).parent_info = dao_info.parent_info

====
